---- MODULE Spec2Model ----
(***************************************************************************)
(* Model of the spisens SPI sensor driver (src/spisensdrv.c): the probe    *)
(* routine, the three sysfs attribute callbacks, the register map they go  *)
(* through and the driver core's unbind of a device.                       *)
(***************************************************************************)
EXTENDS Integers, Sequences, FiniteSets, TLC

(* ------------------------------ bounds --------------------------------- *)
NumDevices == 1
NumThreads == 2

Devices == 1..NumDevices
Threads == 1..NumThreads
\* regmap objects the allocator can hand out
Handles == 1..NumDevices
NULL == 0

(* --------------------------- program constants ------------------------- *)
SPISENS_REG_SHIFT == 4
SPISENS_REG_ID == 0 * (2 ^ SPISENS_REG_SHIFT)
SPISENS_REG_CTRL == 1 * (2 ^ SPISENS_REG_SHIFT)
SPISENS_REG_DATA == 2 * (2 ^ SPISENS_REG_SHIFT)
CTRL_EN_MASK == 1
\* the sentinel with its nibbles swapped
SPISENS_ID_swapped == (10 * 16) + 5
SPISENS_ID == 90
ENOMEM == 12
ENODEV == 19
EIO == 5
\* .val_bits = 8: a register value is one byte
VAL_BITS == 8
Byte == 0..((2 ^ VAL_BITS) - 1)

(* ------------------------- machine arithmetic -------------------------- *)
\* unsigned int is 32 bits wide; a value is kept as two 16-bit halves
\* <<hi, lo>> so that the product below can be reduced modulo 2^32.
Half == 65536
U32(n) == <<n \div Half, n % Half>>

RECURSIVE BitAnd(_, _)
BitAnd(a, b) ==
  IF a = 0 \/ b = 0 THEN 0
  ELSE ((a % 2) * (b % 2)) + 2 * BitAnd(a \div 2, b \div 2)

RECURSIVE BitOr(_, _)
BitOr(a, b) ==
  IF a = 0 THEN b
  ELSE IF b = 0 THEN a
  ELSE (IF (a % 2) + (b % 2) > 0 THEN 1 ELSE 0) + 2 * BitOr(a \div 2, b \div 2)

\* x & ~m on a 16-bit half
BitClear(a, m) == a - BitAnd(a, m)

(* ---------------------------- text conversion -------------------------- *)
DigitChars == <<"0", "1", "2", "3", "4", "5", "6", "7", "8", "9">>

RECURSIVE Digits(_)
Digits(n) ==
  IF n < 10 THEN <<DigitChars[n + 1]>>
  ELSE Digits(n \div 10) \o <<DigitChars[(n % 10) + 1]>>

\* sprintf(buf, "%d\n", x) for an unsigned int x = <<hi, lo>>: %d prints the
\* 32 bits as a signed int.  Returns the text; the call returns its length.
sprintf_d(x) ==
  IF x[1] >= Half \div 2
  THEN \* negative: magnitude 2^32 - x
       LET nlo == (Half - x[2]) % Half
           nhi == (Half - 1 - x[1]) + (IF x[2] = 0 THEN 1 ELSE 0)
       IN  IF nhi >= Half \div 2
           THEN <<"-", "2", "1", "4", "7", "4", "8", "3", "6", "4", "8", "\n">>
           ELSE <<"-">> \o Digits(nhi * Half + nlo) \o <<"\n">>
  ELSE Digits(x[1] * Half + x[2]) \o <<"\n">>

IsSpace(c) == c \in {" ", "\n", "\t"}
IsDigit(c) == c \in {"0", "1", "2", "3", "4", "5", "6", "7", "8", "9"}
DigitVal(c) == CHOOSE k \in 0..9 : DigitChars[k + 1] = c

RECURSIVE SkipSpace(_, _)
SkipSpace(buf, i) ==
  IF i <= Len(buf) /\ IsSpace(buf[i]) THEN SkipSpace(buf, i + 1) ELSE i

RECURSIVE ScanDigits(_, _, _)
ScanDigits(buf, i, acc) ==
  IF i <= Len(buf) /\ IsDigit(buf[i])
  THEN ScanDigits(buf, i + 1, acc * 10 + DigitVal(buf[i]))
  ELSE acc

\* sscanf(buf, "%d", &enable): skips white space, takes an optional sign and
\* the longest run of digits.  n is the number of conversions (0 or 1).
sscanf_d(buf) ==
  LET i == SkipSpace(buf, 1)
      neg == i <= Len(buf) /\ buf[i] = "-"
      j == IF i <= Len(buf) /\ buf[i] \in {"-", "+"} THEN i + 1 ELSE i
  IN  IF j <= Len(buf) /\ IsDigit(buf[j])
      THEN [n |-> 1, val |-> (IF neg THEN -1 ELSE 1) * ScanDigits(buf, j, 0)]
      ELSE [n |-> 0, val |-> 0]

(* ------------------------ values left undefined ------------------------ *)
\* A local that is read without having been assigned holds whatever the
\* stack held.  Of `enable' in enable_store only zero or not matters; of
\* `temperature' the full width does.
GarbageEnable == {0, 1}
GarbageU32 == {<<0, 0>>, <<66, 6501>>, <<65535, 65535>>}

(* ----------------------------- register map ---------------------------- *)
spisens_regmap_is_writeable(reg) == reg = SPISENS_REG_CTRL

\* regmap_read: one bus transaction; on failure *val is left untouched.
\* `devval' is what the device would answer, `fail' whether the bus fails.
regmap_read(reg, devval, fail) ==
  IF reg > SPISENS_REG_DATA \/ reg % (2 ^ SPISENS_REG_SHIFT) # 0
  THEN [err |-> -EIO, set |-> FALSE, val |-> 0, tx |-> <<>>]
  ELSE IF fail
  THEN [err |-> -EIO, set |-> FALSE, val |-> 0,
        tx |-> <<[k |-> "r", reg |-> reg, ok |-> FALSE, val |-> 0]>>]
  ELSE [err |-> 0, set |-> TRUE, val |-> devval % (2 ^ VAL_BITS),
        tx |-> <<[k |-> "r", reg |-> reg, ok |-> TRUE,
                  val |-> devval % (2 ^ VAL_BITS)]>>]

\* regmap_write: refused without a transaction when the register is not
\* writeable; the value put on the bus is the low val_bits of `val'.
regmap_write(reg, val, fail) ==
  IF ~spisens_regmap_is_writeable(reg)
  THEN [err |-> -EIO, wrote |-> FALSE, reg |-> reg, val |-> 0, tx |-> <<>>]
  ELSE IF fail
  THEN [err |-> -EIO, wrote |-> FALSE, reg |-> reg, val |-> 0,
        tx |-> <<[k |-> "w", reg |-> reg, ok |-> FALSE, val |-> 0]>>]
  ELSE [err |-> 0, wrote |-> TRUE, reg |-> reg, val |-> val % (2 ^ VAL_BITS),
        tx |-> <<[k |-> "w", reg |-> reg, ok |-> TRUE,
                  val |-> val % (2 ^ VAL_BITS)]>>]

(* --------------------------- attribute callbacks ----------------------- *)
\* enable_show that leaves out `enable &= CTRL_EN_MASK'
enable_show_nomask(c, fail, g) ==
  LET r == regmap_read(SPISENS_REG_CTRL, c, fail)
      enable == IF r.set THEN r.val ELSE g
      out == sprintf_d(U32(IF enable # 0 THEN 1 ELSE 0))
  IN  [ret |-> Len(out), out |-> out, tx |-> r.tx,
       rdok |-> r.err = 0, rdval |-> IF r.set THEN r.val ELSE -1]

\* enable_show, lines 52-59.  c: CTRL in the device, g: stack garbage.
enable_show(c, fail, g) ==
  LET r == regmap_read(SPISENS_REG_CTRL, c, fail)
      enable0 == IF r.set THEN r.val ELSE g
      enable == BitAnd(enable0, CTRL_EN_MASK)
      out == sprintf_d(U32(IF enable # 0 THEN 1 ELSE 0))
  IN  [ret |-> Len(out), out |-> out, tx |-> r.tx,
       rdok |-> r.err = 0, rdval |-> IF r.set THEN r.val ELSE -1]

\* `temperature *= 1000' on a 16-bit temperature
Mul1000_u16(x) == <<0, (x[2] * 1000) % Half>>

\* the two statements that scale the DATA value, lines 100-101
Mul1000(x) ==
  LET lo == x[2] * 1000
  IN  <<(x[1] * 1000 + lo \div Half) % Half, lo % Half>>
Shr1(x) == <<x[1] \div 2, ((x[1] % 2) * Half + x[2]) \div 2>>
Scale(x) == Shr1(Mul1000(x))

\* data_show that reads DATA twice and keeps the second answer
data_show_reread(v, fail, g) ==
  LET r == regmap_read(SPISENS_REG_DATA, v, fail)
      temperature == IF r.set THEN U32(r.val) ELSE g
      out == sprintf_d(Shr1(Mul1000(temperature)))
  IN  [ret |-> Len(out), out |-> out, tx |-> r.tx \o r.tx,
       rdok |-> r.err = 0, rdval |-> IF r.set THEN r.val ELSE -1]

\* data_show, lines 95-103.  v: DATA in the device, g: stack garbage.
data_show(v, fail, g) ==
  LET r == regmap_read(SPISENS_REG_DATA, v, fail)
      temperature == IF r.set THEN U32(r.val) ELSE g
      out == sprintf_d(Scale(temperature))
  IN  [ret |-> Len(out), out |-> out, tx |-> r.tx,
       rdok |-> r.err = 0, rdval |-> IF r.set THEN r.val ELSE -1]

\* lines 76-80 with `=' for `&=' and `|=': the other bits are dropped
StoreCtrl_assign(ctrl, enable) ==
  IF enable = 0 THEN 0 ELSE CTRL_EN_MASK

\* lines 76-80: the CTRL value enable_store writes back
StoreCtrl(ctrl, enable) ==
  IF enable = 0 THEN BitClear(ctrl, CTRL_EN_MASK) ELSE BitOr(ctrl, CTRL_EN_MASK)

\* enable_store up to the write, lines 67-80.  c: CTRL in the device,
\* g: garbage of `ctrl', ge: garbage of `enable'.
enable_store_read(c, fail, g, buf, ge) ==
  LET r == regmap_read(SPISENS_REG_CTRL, c, fail)
      ctrl == IF r.set THEN r.val ELSE g
      sc == sscanf_d(buf)
      enable == IF sc.n = 1 THEN sc.val ELSE ge
  IN  [ctrl |-> StoreCtrl(ctrl, enable), tx |-> r.tx, parsed |-> sc.n = 1,
       rdok |-> r.err = 0, rdval |-> IF r.set THEN r.val ELSE -1]

\* enable_store from the write on, lines 82-86
enable_store_write(ctrl, count, fail) ==
  LET w == regmap_write(SPISENS_REG_CTRL, ctrl, fail)
  IN  [ret |-> IF w.err < 0 THEN w.err ELSE count, w |-> w]

(* --------------------------------- probe ------------------------------- *)
\* spisens_probe that creates the attribute group before it looks at the ID
spisens_probe_group_first(allocOk, mapOk, idfail, idv, grpOk) ==
  IF ~allocOk
  THEN [ret |-> -ENOMEM, step |-> "alloc", tx |-> <<>>, map |-> FALSE,
        group |-> "no", rdval |-> -1]
  ELSE IF ~mapOk
  THEN [ret |-> -ENOMEM, step |-> "regmap", tx |-> <<>>, map |-> FALSE,
        group |-> "no", rdval |-> -1]
  ELSE LET r == regmap_read(SPISENS_REG_ID, idv, idfail)
           g == IF grpOk THEN "created" ELSE "failed"
       IN  IF r.err < 0
           THEN [ret |-> r.err, step |-> "read", tx |-> r.tx, map |-> TRUE,
                 group |-> g, rdval |-> -1]
           ELSE IF r.val # SPISENS_ID
           THEN [ret |-> -ENODEV, step |-> "id", tx |-> r.tx, map |-> TRUE,
                 group |-> g, rdval |-> r.val]
           ELSE [ret |-> 0, step |-> "done", tx |-> r.tx, map |-> TRUE,
                 group |-> g, rdval |-> r.val]

\* spisens_probe that switches the sensor on once the ID is right
spisens_probe_enables(allocOk, mapOk, idfail, idv, grpOk) ==
  IF ~allocOk
  THEN [ret |-> -ENOMEM, step |-> "alloc", tx |-> <<>>, map |-> FALSE,
        group |-> "no", rdval |-> -1]
  ELSE IF ~mapOk
  THEN [ret |-> -ENOMEM, step |-> "regmap", tx |-> <<>>, map |-> FALSE,
        group |-> "no", rdval |-> -1]
  ELSE LET r == regmap_read(SPISENS_REG_ID, idv, idfail)
           w == regmap_write(SPISENS_REG_CTRL, CTRL_EN_MASK, FALSE)
       IN  IF r.err < 0
           THEN [ret |-> r.err, step |-> "read", tx |-> r.tx, map |-> TRUE,
                 group |-> "no", rdval |-> -1]
           ELSE IF r.val # SPISENS_ID
           THEN [ret |-> -ENODEV, step |-> "id", tx |-> r.tx, map |-> TRUE,
                 group |-> "no", rdval |-> r.val]
           ELSE [ret |-> 0, step |-> "done", tx |-> r.tx \o w.tx, map |-> TRUE,
                 group |-> IF grpOk THEN "created" ELSE "failed",
                 rdval |-> r.val]

\* spisens_probe, lines 151-182.  allocOk: devm_kzalloc succeeds, mapOk:
\* devm_regmap_init_spi succeeds, idfail/idv: the ID read, grpOk:
\* sysfs_create_group succeeds.  `step' is the last line reached.
spisens_probe(allocOk, mapOk, idfail, idv, grpOk) ==
  IF ~allocOk
  THEN [ret |-> -ENOMEM, step |-> "alloc", tx |-> <<>>, map |-> FALSE,
        group |-> "no", rdval |-> -1]
  ELSE IF ~mapOk
  THEN [ret |-> -ENOMEM, step |-> "regmap", tx |-> <<>>, map |-> FALSE,
        group |-> "no", rdval |-> -1]
  ELSE LET r == regmap_read(SPISENS_REG_ID, idv, idfail)
       IN  IF r.err < 0
           THEN [ret |-> r.err, step |-> "read", tx |-> r.tx, map |-> TRUE,
                 group |-> "no", rdval |-> -1]
           ELSE IF r.val # SPISENS_ID
           THEN [ret |-> -ENODEV, step |-> "id", tx |-> r.tx, map |-> TRUE,
                 group |-> "no", rdval |-> r.val]
           ELSE [ret |-> 0, step |-> "done", tx |-> r.tx, map |-> TRUE,
                 group |-> IF grpOk THEN "created" ELSE "failed",
                 rdval |-> r.val]

(* ------------------------------- state --------------------------------- *)
VARIABLES
  drvdata,  \* per device: NULL, or the regmap its struct spisens holds
  mapDev,   \* per regmap object: the device it was created for, 0 if free
  sysfs,    \* per device: the attribute group exists on its kobject
  ctrl,     \* per device: the CTRL register in the hardware
  pc,       \* per thread: "idle", or "write" inside enable_store at line 82
  loc,      \* per thread: the locals of its enable_store
  last      \* the invocation that returned in the last step

vars == <<drvdata, mapDev, sysfs, ctrl, pc, loc, last>>

\* what the environment can do to one probe: the allocation, the regmap
\* creation, the ID read and the group creation.  The outcome of a step
\* that is not reached does not exist and is kept at its default.
EnvOk == [allocOk |-> TRUE, mapOk |-> TRUE, idfail |-> FALSE,
          idv |-> SPISENS_ID, grpOk |-> TRUE]
ProbeEnv(IdVals) ==
  { EnvOk, [EnvOk EXCEPT !.allocOk = FALSE], [EnvOk EXCEPT !.mapOk = FALSE],
    [EnvOk EXCEPT !.idfail = TRUE], [EnvOk EXCEPT !.grpOk = FALSE] }
  \cup { [EnvOk EXCEPT !.idv = v] : v \in IdVals }

NoCall == [op |-> "none", dev |-> 0, ret |-> 0, out |-> <<>>, tx |-> <<>>,
           oops |-> FALSE, rdok |-> FALSE, rdval |-> -1, text |-> <<>>,
           parsed |-> FALSE, inter |-> FALSE, prev |-> <<>>, env |-> EnvOk,
           step |-> "", group |-> "no", stale |-> FALSE, target |-> 0]
Idle == [dev |-> 0, data |-> NULL, ctrl |-> 0, text |-> <<>>, rdok |-> FALSE,
         rdval |-> -1]

\* the device's CTRL register after the bus transactions in tx
RECURSIVE DevApply(_, _)
DevApply(c, tx) ==
  IF tx = <<>> THEN c
  ELSE DevApply(IF Head(tx).k = "w" /\ Head(tx).ok
                   /\ Head(tx).reg = SPISENS_REG_CTRL
                THEN Head(tx).val ELSE c, Tail(tx))

InitWith(Resets) ==
  /\ drvdata = [d \in Devices |-> NULL]
  /\ mapDev = [h \in Handles |-> 0]
  /\ sysfs = [d \in Devices |-> FALSE]
  /\ \E c \in Resets : ctrl = [d \in Devices |-> c]
  /\ pc = [t \in Threads |-> "idle"]
  /\ loc = [t \in Threads |-> Idle]
  /\ last = NoCall

(* ------------------------------- actions ------------------------------- *)
\* the driver core binds the driver to device d: spisens_probe runs; when it
\* fails the core releases the devres allocations and clears drvdata.
\* sysfs_create_group fails on a kobject that already has the files.
Probe(d, Env) ==
  /\ drvdata[d] = NULL
  /\ \E e \in Env, h \in {x \in Handles : mapDev[x] = 0} :
       LET r == spisens_probe(e.allocOk, e.mapOk, e.idfail, e.idv,
                              e.grpOk /\ ~sysfs[d])
       IN  /\ drvdata' = [drvdata EXCEPT ![d] = IF r.ret = 0 THEN h ELSE NULL]
           /\ mapDev' = [mapDev EXCEPT ![h] = IF r.ret = 0 THEN d ELSE 0]
           /\ sysfs' = [sysfs EXCEPT ![d] = sysfs[d] \/ r.group = "created"]
           /\ ctrl' = [ctrl EXCEPT ![d] = DevApply(ctrl[d], r.tx)]
           /\ last' = [NoCall EXCEPT !.op = "probe", !.dev = d, !.ret = r.ret,
                         !.tx = r.tx, !.rdval = r.rdval, !.env = e,
                         !.step = r.step, !.group = r.group]
  /\ UNCHANGED <<pc, loc>>

\* the driver is unbound from device d (there is no .remove): devres frees
\* the private data and the regmap, the core clears drvdata
Unbind(d) ==
  /\ drvdata[d] # NULL
  /\ drvdata' = [drvdata EXCEPT ![d] = NULL]
  /\ mapDev' = [mapDev EXCEPT ![drvdata[d]] = 0]
  /\ last' = NoCall
  /\ UNCHANGED <<sysfs, ctrl, pc, loc>>

\* the text of a store that has just returned its count on device d
JustStored(d) ==
  IF last.op = "enable_store" /\ last.dev = d /\ ~last.oops /\ ~last.stale
     /\ last.ret = Len(last.text)
  THEN last.text ELSE <<>>

\* a read of the enable attribute of device d
EnableShow(d, Garbage) ==
  /\ sysfs[d]
  /\ IF drvdata[d] = NULL
     THEN /\ last' = [NoCall EXCEPT !.op = "enable_show", !.dev = d,
                        !.oops = TRUE]
          /\ UNCHANGED ctrl
     ELSE \E fail \in BOOLEAN :
          \E g \in (IF fail THEN Garbage ELSE {0}) :
            LET r == enable_show(ctrl[d], fail, g)
            IN  /\ ctrl' = [ctrl EXCEPT ![d] = DevApply(ctrl[d], r.tx)]
                /\ last' = [NoCall EXCEPT !.op = "enable_show", !.dev = d,
                              !.ret = r.ret, !.out = r.out, !.tx = r.tx,
                              !.rdok = r.rdok, !.rdval = r.rdval,
                              !.prev = JustStored(d)]
  /\ UNCHANGED <<drvdata, mapDev, sysfs, pc, loc>>

\* a read of the data attribute of device d; the device answers with a
\* DATA value out of Vals
DataShow(d, Vals) ==
  /\ sysfs[d]
  /\ IF drvdata[d] = NULL
     THEN /\ last' = [NoCall EXCEPT !.op = "data_show", !.dev = d,
                        !.oops = TRUE]
          /\ UNCHANGED ctrl
     ELSE \E fail \in BOOLEAN :
          \E v \in (IF fail THEN {0} ELSE Vals) :
          \E g \in (IF fail THEN GarbageU32 ELSE {<<0, 0>>}) :
            LET r == data_show(v, fail, g)
            IN  /\ ctrl' = [ctrl EXCEPT ![d] = DevApply(ctrl[d], r.tx)]
                /\ last' = [NoCall EXCEPT !.op = "data_show", !.dev = d,
                              !.ret = r.ret, !.out = r.out, !.tx = r.tx,
                              !.rdok = r.rdok, !.rdval = r.rdval]
  /\ UNCHANGED <<drvdata, mapDev, sysfs, pc, loc>>

\* thread t writes a text out of Txts to the enable attribute of device d:
\* enable_store runs up to line 80
EnableStoreRead(t, d, Txts, Garbage) ==
  /\ pc[t] = "idle"
  /\ sysfs[d]
  /\ IF drvdata[d] = NULL
     THEN /\ last' = [NoCall EXCEPT !.op = "enable_store", !.dev = d,
                        !.oops = TRUE]
          /\ UNCHANGED <<ctrl, pc, loc>>
     ELSE \E buf \in Txts, fail \in BOOLEAN :
          \E g \in (IF fail THEN Garbage ELSE {0}) :
          \E ge \in (IF sscanf_d(buf).n = 1 THEN {0} ELSE GarbageEnable) :
            LET r == enable_store_read(ctrl[d], fail, g, buf, ge)
            IN  /\ ctrl' = [ctrl EXCEPT ![d] = DevApply(ctrl[d], r.tx)]
                /\ pc' = [pc EXCEPT ![t] = "write"]
                /\ loc' = [loc EXCEPT ![t] =
                             [dev |-> d, data |-> drvdata[d], ctrl |-> r.ctrl,
                              text |-> buf, rdok |-> r.rdok,
                              rdval |-> r.rdval]]
                /\ last' = NoCall
  /\ UNCHANGED <<drvdata, mapDev, sysfs>>

\* the step before this one was a register access to device d by another
\* invocation (a thread at line 82 made its own read earlier still)
Between(d) ==
  /\ last.op \in {"probe", "enable_show", "data_show", "enable_store"}
  /\ last.tx # <<>>
  /\ \/ last.dev = d /\ ~last.stale
     \/ last.stale /\ last.target = d

\* the read transaction a store in flight has behind it
ReadTx(l) ==
  <<[k |-> "r", reg |-> SPISENS_REG_CTRL, ok |-> l.rdok,
     val |-> IF l.rdok THEN l.rdval ELSE 0]>>

\* thread t finishes its enable_store, lines 82-86, on device `target'
StoreFinish(t, target, fail, isStale) ==
  LET l == loc[t]
      w == enable_store_write(l.ctrl, Len(l.text), fail)
  IN  /\ ctrl' = [ctrl EXCEPT ![target] = DevApply(ctrl[target], w.w.tx)]
      /\ loc' = [loc EXCEPT ![t] = Idle]
      /\ last' = [NoCall EXCEPT !.op = "enable_store", !.dev = l.dev,
                    !.ret = w.ret, !.tx = ReadTx(l) \o w.w.tx,
                    !.rdok = l.rdok, !.rdval = l.rdval, !.text = l.text,
                    !.parsed = sscanf_d(l.text).n = 1,
                    !.inter = Between(l.dev), !.stale = isStale,
                    !.target = target]

EnableStoreWrite(t) ==
  /\ pc[t] = "write"
  /\ pc' = [pc EXCEPT ![t] = "idle"]
  /\ IF drvdata[loc[t].dev] = loc[t].data
     THEN \E fail \in BOOLEAN : StoreFinish(t, loc[t].dev, fail, FALSE)
     ELSE \* `data' was freed by an unbind: data->regmap is a read of freed
          \* memory.  Either the access faults, or the old pointer value is
          \* still there and the write goes to whatever device now owns
          \* that regmap object.
          \/ /\ last' = [NoCall EXCEPT !.op = "enable_store",
                           !.dev = loc[t].dev, !.oops = TRUE, !.stale = TRUE,
                           !.tx = ReadTx(loc[t]), !.text = loc[t].text]
             /\ loc' = [loc EXCEPT ![t] = Idle]
             /\ UNCHANGED ctrl
          \/ /\ mapDev[loc[t].data] # 0
             /\ \E fail \in BOOLEAN :
                  StoreFinish(t, mapDev[loc[t].data], fail, TRUE)
  /\ UNCHANGED <<drvdata, mapDev, sysfs>>

(* ---------------------------- specifications --------------------------- *)
\* register values, texts and stack garbage of the system specifications;
\* of an unassigned `ctrl' or `enable' (enable_show) only bit 0 is varied here
IdVals == {0, 165}
DataVals == {0, 255}
CtrlReset == {0}
Texts == { <<"1">>, <<"x">> }
Garbage == {0, 1}

\* the device and the thread of the specifications that follow one of each
Dev0 == CHOOSE d \in Devices : \A e \in Devices : d <= e
T0 == CHOOSE t \in Threads : \A u \in Threads : t <= u

Init == InitWith(CtrlReset)

\* the whole driver: every device, concurrent writers of enable
Next ==
  \/ \E d \in Devices : Probe(d, ProbeEnv(IdVals))
  \/ \E d \in Devices : Unbind(d)
  \/ \E d \in Devices : EnableShow(d, Garbage)
  \/ \E d \in Devices : DataShow(d, DataVals)
  \/ \E t \in Threads, d \in Devices : EnableStoreRead(t, d, Texts, Garbage)
  \/ \E t \in Threads : EnableStoreWrite(t)

Spec == Init /\ [][Next]_vars

\* every device, one writer of enable at a time
NextDev ==
  \/ \E d \in Devices : Probe(d, ProbeEnv(IdVals))
  \/ \E d \in Devices : Unbind(d)
  \/ \E d \in Devices : EnableShow(d, Garbage)
  \/ \E d \in Devices : DataShow(d, DataVals)
  \/ \E d \in Devices : EnableStoreRead(T0, d, Texts, Garbage)
  \/ EnableStoreWrite(T0)

SpecDev == Init /\ [][NextDev]_vars

\* one device, concurrent writers of enable
NextRace ==
  \/ Probe(Dev0, ProbeEnv(IdVals))
  \/ Unbind(Dev0)
  \/ EnableShow(Dev0, Garbage)
  \/ DataShow(Dev0, DataVals)
  \/ \E t \in Threads : EnableStoreRead(t, Dev0, Texts, Garbage)
  \/ \E t \in Threads : EnableStoreWrite(t)

SpecRace == Init /\ [][NextRace]_vars

\* one device whose ID register holds any byte
NextProbe ==
  \/ Probe(Dev0, ProbeEnv(Byte))
  \/ Unbind(Dev0)

SpecProbe == Init /\ [][NextProbe]_vars

\* one attached device whose DATA register holds any byte
NextData ==
  \/ Probe(Dev0, ProbeEnv(IdVals))
  \/ Unbind(Dev0)
  \/ DataShow(Dev0, Byte)

SpecData == Init /\ [][NextData]_vars

\* one device whose CTRL register resets to any byte, one writer
TextsCtrl == { <<"0">>, <<"1">>, <<"1", "\n">>, <<" ", "0">>, <<"-", "2">>,
               <<"x">> }
GarbageCtrl == {0, 171}

NextCtrl ==
  \/ Probe(Dev0, {EnvOk})
  \/ EnableShow(Dev0, GarbageCtrl)
  \/ EnableStoreRead(T0, Dev0, TextsCtrl, GarbageCtrl)
  \/ EnableStoreWrite(T0)

SpecCtrl == InitWith(Byte) /\ [][NextCtrl]_vars

(* ------------------------------- claims -------------------------------- *)
Calls == {"probe", "enable_show", "enable_store", "data_show"}

\* the number a run of decimal digits denotes
RECURSIVE DecValue(_)
DecValue(s) ==
  IF s = <<>> THEN 0
  ELSE DecValue(SubSeq(s, 1, Len(s) - 1)) * 10 + DigitVal(s[Len(s)])

\* s is the plain decimal text of n >= 0 followed by a newline
IsDecLine(s, n) ==
  /\ Len(s) >= 2
  /\ s[Len(s)] = "\n"
  /\ \A i \in 1..(Len(s) - 1) : IsDigit(s[i])
  /\ (Len(s) > 2 => s[1] # "0")
  /\ DecValue(SubSeq(s, 1, Len(s) - 1)) = n

Writes(tx) == {i \in 1..Len(tx) : tx[i].k = "w"}
Reads(tx) == {i \in 1..Len(tx) : tx[i].k = "r"}

\* C1: spisens_probe returns 0, and the device is attached, exactly when the
\* allocation succeeds, the register map is created, the ID read succeeds and
\* the value read is 0x5A; every other ID value read ends in -ENODEV.
C1_ProbeAttachIff ==
  last.op = "probe" =>
    LET e == last.env
        reached == e.allocOk /\ e.mapOk /\ ~e.idfail
    IN  /\ last.ret = 0 <=> (reached /\ e.idv = 90)
        /\ last.ret = 0 <=> drvdata[last.dev] # NULL
        /\ (reached /\ e.idv \in (0..255) \ {90}) => last.ret = -19

C1_Witness ==
  /\ last.op = "probe" /\ last.ret = 0
  /\ last.env.idv = 90 /\ last.rdval = 90
  /\ drvdata[last.dev] # NULL

\* C2: a probe that meets an allocation failure, a register-map or ID-read
\* failure, or an unexpected ID returns a negative code at that step and
\* runs nothing after it: the attribute group is not created, no register is
\* written and the ID register is read at most once.
C2_ProbeAbortsAtFirstFailure ==
  last.op = "probe" =>
    LET e == last.env
        first == IF ~e.allocOk THEN "alloc"
                 ELSE IF ~e.mapOk THEN "regmap"
                 ELSE IF e.idfail THEN "read"
                 ELSE IF e.idv # 90 THEN "id" ELSE "done"
    IN  /\ last.step = first
        /\ first # "done" =>
             /\ last.ret < 0
             /\ last.group = "no"
             /\ Writes(last.tx) = {}
             /\ Cardinality(Reads(last.tx)) <= 1
             /\ first \in {"alloc", "regmap"} => last.tx = <<>>
             /\ drvdata[last.dev] = NULL

C2_Witness ==
  /\ last.op = "probe" /\ last.step = "id" /\ last.ret = -19
  /\ Len(last.tx) = 1 /\ last.group = "no"
  /\ ~sysfs[last.dev]

\* C3: for every DATA value v in 0..255 that a read returns, data_show puts
\* out the decimal text of v * 500 and a newline; v * 1000 fits in 32 bits
\* and is even, so the result lies in 0..127500.
C3_DataScaledBy500 ==
  (last.op = "data_show" /\ last.rdok) =>
    LET v == last.rdval
        m == Mul1000(U32(v))
    IN  /\ v \in 0..255
        /\ m[1] * Half + m[2] = v * 1000
        /\ m[2] % 2 = 0
        /\ IsDecLine(last.out, v * 500)
        /\ v * 500 \in 0..127500
        /\ last.ret = Len(last.out)

C3_Witness ==
  /\ last.op = "data_show" /\ last.rdok /\ last.rdval = 255
  /\ last.out = <<"1", "2", "7", "5", "0", "0", "\n">>

\* C4: an enable_store of "0" or "1" whose read and write of CTRL succeed
\* writes CTRL with bit 0 clear resp. set and with bits 1..7 as they were
\* read at the start of the call, and returns count.
C4_StoreKeepsOtherBits ==
  (/\ last.op = "enable_store" /\ ~last.oops /\ last.rdok
   /\ last.text \in {<<"0">>, <<"1">>}
   /\ Len(last.tx) = 2 /\ last.tx[2].ok) =>
    LET w == last.tx[2]
    IN  /\ w.k = "w" /\ w.reg = 16
        /\ w.val % 2 = (IF last.text = <<"1">> THEN 1 ELSE 0)
        /\ w.val \div 2 = last.rdval \div 2
        /\ last.ret = Len(last.text)
        /\ ctrl[last.dev] = w.val

C4_Witness ==
  /\ last.op = "enable_store" /\ last.rdok /\ last.rdval = 171
  /\ last.text = <<"0">> /\ last.ret = 1
  /\ ctrl[last.dev] = 170

\* C5: for every CTRL value c in 0..255 that a read returns, enable_show
\* puts out "1\n" when bit 0 of c is set and "0\n" when it is clear; right
\* after an enable_store of "0" or "1" that returned count it shows the
\* digit stored.
C5_ShowIsBitZero ==
  (last.op = "enable_show" /\ last.rdok) =>
    /\ last.rdval \in 0..255
    /\ last.out = <<(IF last.rdval % 2 = 1 THEN "1" ELSE "0"), "\n">>
    /\ last.ret = 2
    /\ last.prev \in {<<"0">>, <<"1">>} => last.out = last.prev \o <<"\n">>

C5_Witness ==
  /\ last.op = "enable_show" /\ last.rdok
  /\ last.prev = <<"0">> /\ last.rdval = 254
  /\ last.out = <<"0", "\n">>

\* C6 as claimed, for the invocations that get as far as a register access:
\* every invocation of spisens_probe, enable_show, enable_store and
\* data_show issues exactly one register transaction, and no access of
\* another invocation falls between its accesses.
C6_OneTransactionEach ==
  (last.op \in Calls /\ last.tx # <<>>) => (Len(last.tx) = 1 /\ ~last.inter)

\* C6 amended: spisens_probe, enable_show and data_show issue at most one
\* register transaction each, a read (none when they stop before it);
\* enable_store issues a read of CTRL and then a write of CTRL.
C6_ReadThenWrite ==
  LET IsRead(x, reg) == x.k = "r" /\ x.reg = reg
  IN  /\ last.op = "probe" =>
           IF last.step \in {"alloc", "regmap"} THEN last.tx = <<>>
           ELSE Len(last.tx) = 1 /\ IsRead(last.tx[1], 0)
      /\ last.op = "enable_show" =>
           IF last.oops THEN last.tx = <<>>
           ELSE Len(last.tx) = 1 /\ IsRead(last.tx[1], 16)
      /\ last.op = "data_show" =>
           IF last.oops THEN last.tx = <<>>
           ELSE Len(last.tx) = 1 /\ IsRead(last.tx[1], 32)
      /\ last.op = "enable_store" =>
           IF last.oops
           THEN last.tx = <<>> \/ (Len(last.tx) = 1 /\ IsRead(last.tx[1], 16))
           ELSE /\ Len(last.tx) = 2
                /\ IsRead(last.tx[1], 16)
                /\ last.tx[2].k = "w" /\ last.tx[2].reg = 16

\* an enable_store whose read and write had another invocation's access to
\* the same device between them
C6_Witness ==
  /\ last.op = "enable_store" /\ ~last.oops /\ ~last.stale
  /\ Len(last.tx) = 2 /\ last.tx[1].ok /\ last.tx[2].ok
  /\ last.inter

\* C7: whenever an attribute callback of a device can run, the device's
\* private data is set and holds a live regmap created by its own probe,
\* and no other device holds the same regmap.
C7_HandleValidWhileCallable ==
  \A d \in Devices :
    sysfs[d] =>
      /\ drvdata[d] # NULL
      /\ mapDev[drvdata[d]] = d
      /\ \A e \in Devices \ {d} : drvdata[e] # drvdata[d]

\* C8: the driver writes no register but CTRL, and only enable_store writes:
\* spisens_probe, enable_show and data_show only read.
C8_OnlyStoreWritesCtrl ==
  last.op \in Calls =>
    /\ \A i \in Writes(last.tx) : last.tx[i].reg = 16
    /\ \A i \in 1..Len(last.tx) : last.tx[i].reg \in {0, 32} => last.tx[i].k = "r"
    /\ last.op # "enable_store" => Writes(last.tx) = {}

C8_Witness ==
  /\ last.op = "enable_store" /\ ~last.oops
  /\ Len(last.tx) = 2 /\ last.tx[2].k = "w" /\ last.tx[2].ok
  /\ last.tx[2].reg = 16 /\ last.tx[2].val # last.tx[1].val

\* C9: the enable and data attributes exist exactly while the device is
\* attached: after every probe that returned 0, not after a probe that
\* aborted, and no longer once the device is detached.
C9_AttributesIffAttached ==
  \A d \in Devices : sysfs[d] <=> drvdata[d] # NULL

\* C10: when the register read of a callback fails, or the text given to
\* enable_store is no integer, the callback returns a negative error, puts
\* out no text and does not write CTRL; enable_store returns a negative
\* error when its write fails.
C10_FailuresReported ==
  (last.op \in {"enable_show", "data_show", "enable_store"} /\ ~last.oops) =>
    /\ (~last.rdok \/ (last.op = "enable_store" /\ ~last.parsed)) =>
         /\ last.ret < 0
         /\ last.out = <<>>
         /\ Writes(last.tx) = {}
    /\ (\E i \in Writes(last.tx) : ~last.tx[i].ok) => last.ret < 0

====
